---- MODULE Spec2Model ----
(***************************************************************************)
(* circuit_forge: the adder and multiplier circuit builders.               *)
(*                                                                         *)
(* A circuit is the ordered list of gates the builder appended (qc).  The  *)
(* classical value the gate list computes is followed in st: every action  *)
(* that appends gates to qc also runs them on st, so st is always the      *)
(* basis state the circuit built so far maps its input to.                 *)
(***************************************************************************)
EXTENDS Integers, Sequences, FiniteSets, TLC

VARIABLES
    prog,           \* which entry point runs: "adder", "multiplier", or a unit call
    pc,             \* position in the entry point
    argv,           \* sys.argv[1:], <<>> when the argument is missing
    n,              \* the bit-width (qubit_count in adder.py, n in multiplier.py)
    n_qubits,       \* declared total qubit count of the circuit
    qc,             \* the gate list appended so far
    st,             \* classical value of the qubits after qc (index -> 0/1)
    st0,            \* classical value of the qubits when the arithmetic gates start
    i,              \* loop counter of the top-level loop
    exit_status,    \* process exit status, -1 while running
    stderr,         \* messages written to the error stream
    files,          \* files written under qasm/
    a_pattern,      \* adder: a_pattern argument of initialize_quantum_state
    b_pattern,      \* adder: b_pattern argument of initialize_quantum_state
    initial_carry,  \* adder: initial_carry argument of initialize_quantum_state
    p,              \* multiplier: first drawn operand
    q,              \* multiplier: second drawn operand
    x_bin,          \* multiplier: bit string loaded into the x register
    y_bin,          \* multiplier: bit string loaded into the y register
    cr,             \* classical register after measurement
    args            \* unit calls: the qubit indices passed to the function

vars == <<prog, pc, argv, n, n_qubits, qc, st, st0, i, exit_status, stderr,
          files, a_pattern, b_pattern, initial_carry, p, q, x_bin, y_bin, cr, args>>

(***************************************************************************)
(* Bounds of the model.                                                    *)
(***************************************************************************)
MaxK == 8          \* largest adder bit-width argument tried
MaxN == 3          \* largest multiplier bit-width argument tried
MaxPatLen == 5     \* longest operand pattern string given to the adder
MaxM == 3          \* most (c, a, b) triplets given to a lone adder call
RegSize == 4       \* register size for a lone majority / unmajority call
MinArg == 4        \* arguments range over -MinArg .. Max

(***************************************************************************)
(* Python lists, strings and integers.                                     *)
(***************************************************************************)
Bit == {0, 1}
Char == {"0", "1"}

RECURSIVE Pow2(_)
Pow2(e) == IF e <= 0 THEN 1 ELSE 2 * Pow2(e - 1)

Xor(u, v) == (u + v) % 2

\* list(range(lo, hi))
Range(lo, hi) == [j \in 1..(IF hi > lo THEN hi - lo ELSE 0) |-> lo + j - 1]

\* s[start:stop:step] for 0 <= start, step >= 1
Slice(s, start, stop, step) ==
    LET hi == IF stop < Len(s) THEN stop ELSE Len(s)
        cnt == IF hi > start THEN (hi - start + step - 1) \div step ELSE 0
    IN  [j \in 1..cnt |-> s[start + (j - 1) * step + 1]]

\* s[::-1]
Reverse(s) == [j \in 1..Len(s) |-> s[Len(s) + 1 - j]]

\* s[-k:] for k >= 0 (s[-0:] is the whole string)
LastChars(s, k) ==
    IF k = 0 \/ k >= Len(s) THEN s ELSE SubSeq(s, Len(s) - k + 1, Len(s))

Zeros(k) == [j \in 1..(IF k > 0 THEN k ELSE 0) |-> "0"]

RECURSIVE Cat(_)
Cat(ss) == IF ss = <<>> THEN <<>> ELSE Head(ss) \o Cat(Tail(ss))

\* all '0'/'1' strings of length exactly len / at most len
BitStrings(len) == [1..len -> Char]
StringsUpTo(len) == UNION {BitStrings(l) : l \in 0..len}

(***************************************************************************)
(* Gates: what QuantumCircuit.x / cx / ccx / measure append, and what the  *)
(* appended gate does to a classical basis state.                          *)
(***************************************************************************)
x(t) == [op |-> "x", qs |-> <<t>>, cb |-> -1]
cx(c, t) == [op |-> "cx", qs |-> <<c, t>>, cb |-> -1]
ccx(c1, c2, t) == [op |-> "ccx", qs |-> <<c1, c2, t>>, cb |-> -1]
measure(t, b) == [op |-> "measure", qs |-> <<t>>, cb |-> b]

ApplyGate(g, s) ==
    IF \E j \in 1..Len(g.qs) : g.qs[j] \notin DOMAIN s THEN s
    ELSE IF g.op = "x" THEN [s EXCEPT ![g.qs[1]] = 1 - @]
    ELSE IF g.op = "cx" THEN [s EXCEPT ![g.qs[2]] = Xor(@, s[g.qs[1]])]
    ELSE IF g.op = "ccx" THEN [s EXCEPT ![g.qs[3]] = Xor(@, s[g.qs[1]] * s[g.qs[2]])]
    ELSE s

RECURSIVE RunFrom(_, _, _)
RunFrom(gs, j, s) == IF j > Len(gs) THEN s ELSE RunFrom(gs, j + 1, ApplyGate(gs[j], s))

\* the basis state the gate list gs maps the basis state s to
Run(gs, s) == RunFrom(gs, 1, s)

\* the number a list of qubits holds, first qubit least significant
RECURSIVE Val(_, _)
Val(s, qubits) ==
    IF qubits = <<>> THEN 0 ELSE s[Head(qubits)] + 2 * Val(s, Tail(qubits))

\* QuantumCircuit(n): every qubit starts at 0
ZeroState(cnt) == [j \in 0..(cnt - 1) |-> 0]

(***************************************************************************)
(* adder.py                                                                *)
(***************************************************************************)
apply_majority_gate(a, b, c) == <<cx(c, b), cx(c, a), ccx(a, b, c)>>

\* variant: the literal reverse of apply_majority_gate
undo_majority_gate_reversed(a, b, c) == <<ccx(a, b, c), cx(c, a), cx(c, b)>>

undo_majority_gate(a, b, c) == <<ccx(a, b, c), cx(c, a), cx(a, b)>>

add_four_bits(a_qubits, b_qubits, carry_in, carry_out) ==
    apply_majority_gate(carry_in, b_qubits[1], a_qubits[1])
    \o apply_majority_gate(a_qubits[1], b_qubits[2], a_qubits[2])
    \o apply_majority_gate(a_qubits[2], b_qubits[3], a_qubits[3])
    \o apply_majority_gate(a_qubits[3], b_qubits[4], a_qubits[4])
    \o <<cx(a_qubits[4], carry_out)>>
    \o undo_majority_gate(a_qubits[3], b_qubits[4], a_qubits[4])
    \o undo_majority_gate(a_qubits[2], b_qubits[3], a_qubits[3])
    \o undo_majority_gate(a_qubits[1], b_qubits[2], a_qubits[2])
    \o undo_majority_gate(carry_in, b_qubits[1], a_qubits[1])

\* variant: str.rjust(width, "0"), padding on the left
Rjust(s, width) == IF Len(s) >= width THEN s ELSE Zeros(width - Len(s)) \o s

\* str.ljust(width, "0"): pads on the right
Ljust(s, width) == IF Len(s) >= width THEN s ELSE s \o Zeros(width - Len(s))

\* pattern.ljust(qubit_count, "0")[-qubit_count:]
NormalizePattern(pattern, qubit_count) ==
    LastChars(Ljust(pattern, qubit_count), qubit_count)

\* the x gates of one pattern, written from qubit index offset on
PatternFlips(pattern, qubit_count, offset) ==
    LET hit == {j \in 1..qubit_count : pattern[j] = "1"}
        RECURSIVE Walk(_)
        Walk(j) == IF j > qubit_count THEN <<>>
                   ELSE (IF j \in hit THEN <<x(offset + j - 1)>> ELSE <<>>) \o Walk(j + 1)
    IN  Walk(1)

initialize_quantum_state(qubit_count, a_pat, b_pat, carry) ==
    LET pa == NormalizePattern(a_pat, qubit_count)
        pb == NormalizePattern(b_pat, qubit_count)
    IN  PatternFlips(pa, qubit_count, 0)
        \o PatternFlips(pb, qubit_count, qubit_count)
        \o (IF carry = 1 THEN <<x(2 * qubit_count)>> ELSE <<>>)

validate_qubit_count(qubit_count) == qubit_count % 4 = 0 /\ qubit_count > 0

\* variant: one qubit short
create_quantum_circuit_short(qubit_count) ==
    qubit_count * 2 + (qubit_count \div 4)

create_quantum_circuit(qubit_count) ==
    qubit_count * 2 + 2 + (qubit_count \div 4) - 1

\* the operands of add_four_bits in iteration blk of the top-level loop
BlockA(blk) == <<blk, blk + 1, blk + 2, blk + 3>>
BlockB(blk, qubit_count) ==
    <<blk + qubit_count, blk + qubit_count + 1, blk + qubit_count + 2,
      blk + qubit_count + 3>>
\* variant: every block takes the initial carry qubit as its carry-in
BlockCarryInFirst(blk, qubit_count) == qubit_count * 2
BlockCarryIn(blk, qubit_count) == qubit_count * 2 + (blk \div 4)
\* variant: carry-out one qubit too far
BlockCarryOutNext(blk, qubit_count) == qubit_count * 2 + (blk \div 4) + 2
BlockCarryOut(blk, qubit_count) == qubit_count * 2 + (blk \div 4) + 1

AdderBlock(blk, qubit_count) ==
    add_four_bits(BlockA(blk), BlockB(blk, qubit_count),
                  BlockCarryIn(blk, qubit_count), BlockCarryOut(blk, qubit_count))

\* qc.measure_all(): qubit j into classical bit j, ascending
measure_all(cnt) == [j \in 1..cnt |-> measure(j - 1, j - 1)]

(***************************************************************************)
(* multiplier.py                                                           *)
(***************************************************************************)
\* variant: the carry through c0 is dropped
carry_half(c0, a, b, c1) == <<ccx(a, b, c1), cx(a, b)>>

carry(c0, a, b, c1) == <<ccx(a, b, c1), cx(a, b), ccx(c0, b, c1)>>

uncarry(c0, a, b, c1) == <<ccx(c0, b, c1), cx(a, b), ccx(a, b, c1)>>

carry_sum(c0, a, b) == <<cx(a, b), cx(c0, b)>>

adder(qubits) ==
    LET m == Len(qubits) \div 3
        c == Slice(qubits, 0, Len(qubits), 3)
        a == Slice(qubits, 1, Len(qubits), 3)
        b == Slice(qubits, 2, Len(qubits), 3)
        up == [j \in 1..(m - 1) |-> carry(c[j], a[j], b[j], c[j + 1])]
        \* j-th step of the descending loop handles Python index m - 1 - j
        down == [j \in 1..(m - 1) |->
                    uncarry(c[m - j], a[m - j], b[m - j], c[m - j + 1])
                    \o carry_sum(c[m - j], a[m - j], b[m - j])]
    IN  Cat(up) \o carry_sum(c[m], a[m], b[m]) \o Cat(down)

\* variant: the partial product is not shifted
CopyPassUnshifted(a, y, x_i, idx, width) ==
    LET ys == Slice(y, 0, width - idx, 1)
        cnt == IF Len(a) < Len(ys) THEN Len(a) ELSE Len(ys)
    IN  [j \in 1..cnt |-> ccx(x_i, ys[j], a[j])]

\* zip(a[i:], y[:n - i]) -> ccx(x_i, y_qubit, a_qubit)
CopyPass(a, y, x_i, idx, width) ==
    LET as == Slice(a, idx, Len(a), 1)
        ys == Slice(y, 0, width - idx, 1)
        cnt == IF Len(as) < Len(ys) THEN Len(as) ELSE Len(ys)
    IN  [j \in 1..cnt |-> ccx(x_i, ys[j], as[j])]

\* variant: the copy is not uncomputed
MultiplierStepNoUncompute(qubits, idx) ==
    LET width == Len(qubits) \div 5
        a == Slice(qubits, 1, width * 3, 3)
        y == Slice(qubits, width * 3, width * 4, 1)
        xs == Slice(qubits, width * 4, Len(qubits), 1)
    IN  CopyPass(a, y, xs[idx + 1], idx, width)
        \o adder(Slice(qubits, 0, 3 * width, 1))

\* one iteration of the loop over enumerate(x) in multiplier()
MultiplierStep(qubits, idx) ==
    LET width == Len(qubits) \div 5
        a == Slice(qubits, 1, width * 3, 3)
        y == Slice(qubits, width * 3, width * 4, 1)
        xs == Slice(qubits, width * 4, Len(qubits), 1)
        x_i == xs[idx + 1]
    IN  CopyPass(a, y, x_i, idx, width)
        \o adder(Slice(qubits, 0, 3 * width, 1))
        \o CopyPass(a, y, x_i, idx, width)

\* zip(x_bin, list(qubits)[::-1]): flip where the character is "1"
init_bits(bits, qubits) ==
    LET rev == Reverse(qubits)
        cnt == IF Len(bits) < Len(rev) THEN Len(bits) ELSE Len(rev)
        RECURSIVE Walk(_)
        Walk(j) == IF j > cnt THEN <<>>
                   ELSE (IF bits[j] = "1" THEN <<x(rev[j])>> ELSE <<>>) \o Walk(j + 1)
    IN  Walk(1)

\* variant: zero is let through
validate_bit_count_nonneg(width) == width >= 0

validate_bit_count(width) == width > 0

\* math.floor(math.sqrt(v))
FloorSqrt(v) == CHOOSE r \in 0..v : r * r <= v /\ (r + 1) * (r + 1) > v

\* f"{v:b}"
RECURSIVE Binary(_)
Binary(v) ==
    IF v < 2 THEN <<IF v = 1 THEN "1" ELSE "0">>
    ELSE Binary(v \div 2) \o <<IF v % 2 = 1 THEN "1" ELSE "0">>

\* f"{v:0{width}b}"[-width:]
FormatBits(v, width) ==
    LET digits == Binary(v)
        padded == IF Len(digits) >= width THEN digits
                  ELSE Zeros(width - Len(digits)) \o digits
    IN  LastChars(padded, width)

\* qc.measure(b, cr) with b = qr[2 : n * 3 : 3]
MeasureResult(qr, width) ==
    LET b == Slice(qr, 2, width * 3, 3)
    IN  [j \in 1..Len(b) |-> measure(b[j], j - 1)]

(***************************************************************************)
(* State changes shared by the actions.                                    *)
(***************************************************************************)
\* append gates to the circuit; st follows what they compute
Emit(gates) ==
    /\ qc' = qc \o gates
    /\ st' = Run(gates, st)

Exit(status) ==
    /\ pc' = "exited"
    /\ exit_status' = status

\* writing qasm/<kind>_n<total>.qasm
save_qasm_file(kind, total) == files' = files \cup {<<kind, total>>}

\* sys.argv[1:]: no argument, or one integer
Args(max) == {<<>>} \cup {<<k>> : k \in (0 - MinArg)..max}

Unset ==
    /\ n = 0
    /\ n_qubits = 0
    /\ qc = <<>>
    /\ st = <<>>
    /\ st0 = <<>>
    /\ i = 0
    /\ exit_status = -1
    /\ stderr = <<>>
    /\ files = {}
    /\ a_pattern = <<>>
    /\ b_pattern = <<>>
    /\ initial_carry = 0
    /\ p = 0
    /\ q = 0
    /\ x_bin = <<>>
    /\ y_bin = <<>>
    /\ cr = <<>>
    /\ args = <<>>

\* either command is started with some argument list
Init ==
    /\ prog \in {"adder", "multiplier"}
    /\ pc = "start"
    /\ argv \in Args(IF prog = "adder" THEN MaxK ELSE MaxN)
    /\ Unset

(***************************************************************************)
(* python -m circuit_forge.adder                                           *)
(***************************************************************************)
\* sys.argv[1] with no argument: IndexError, uncaught
AdderNoArgument ==
    /\ prog = "adder" /\ pc = "start"
    /\ argv = <<>>
    /\ stderr' = Append(stderr, "IndexError")
    /\ Exit(1)
    /\ UNCHANGED <<prog, argv, n, n_qubits, qc, st, st0, i, files, a_pattern,
                   b_pattern, initial_carry, p, q, x_bin, y_bin, cr, args>>

\* not validate_qubit_count(qubit_count): sys.exit(0)
AdderReject ==
    /\ prog = "adder" /\ pc = "start"
    /\ argv # <<>>
    /\ ~validate_qubit_count(argv[1])
    /\ n' = argv[1]
    /\ Exit(0)
    /\ UNCHANGED <<prog, argv, n_qubits, qc, st, st0, i, stderr, files, a_pattern,
                   b_pattern, initial_carry, p, q, x_bin, y_bin, cr, args>>

\* qc, n_qubits = create_quantum_circuit(qubit_count)
AdderCreate ==
    /\ prog = "adder" /\ pc = "start"
    /\ argv # <<>>
    /\ validate_qubit_count(argv[1])
    /\ n' = argv[1]
    /\ n_qubits' = create_quantum_circuit(argv[1])
    /\ st' = ZeroState(create_quantum_circuit(argv[1]))
    /\ pc' = "initialize"
    /\ UNCHANGED <<prog, argv, qc, st0, i, exit_status, stderr, files, a_pattern,
                   b_pattern, initial_carry, p, q, x_bin, y_bin, cr, args>>

\* initialize_quantum_state(qc, qubit_count, a_pattern=..., b_pattern=...,
\* initial_carry=...): the script passes "1110", "0001" and 1; the function
\* takes any patterns and carry, and so does this step
AdderInitialize ==
    /\ prog = "adder" /\ pc = "initialize"
    /\ \E pa \in StringsUpTo(MaxPatLen), pb \in StringsUpTo(MaxPatLen), c \in Bit :
        /\ a_pattern' = pa
        /\ b_pattern' = pb
        /\ initial_carry' = c
        /\ Emit(initialize_quantum_state(n, pa, pb, c))
    /\ st0' = st'
    /\ i' = 0
    /\ pc' = "loop"
    /\ UNCHANGED <<prog, argv, n, n_qubits, exit_status, stderr, files, p, q,
                   x_bin, y_bin, cr, args>>

\* one iteration of: for i in range(0, qubit_count, 4): add_four_bits(...)
AdderLoop ==
    /\ prog = "adder" /\ pc = "loop"
    /\ i < n
    /\ Emit(AdderBlock(i, n))
    /\ i' = i + 4
    /\ UNCHANGED <<prog, pc, argv, n, n_qubits, st0, exit_status, stderr, files,
                   a_pattern, b_pattern, initial_carry, p, q, x_bin, y_bin, cr, args>>

\* qc.measure_all()
AdderMeasure ==
    /\ prog = "adder" /\ pc = "loop"
    /\ i >= n
    /\ Emit(measure_all(n_qubits))
    /\ cr' = [j \in 0..(n_qubits - 1) |-> st[j]]
    /\ pc' = "save"
    /\ UNCHANGED <<prog, argv, n, n_qubits, st0, i, exit_status, stderr, files,
                   a_pattern, b_pattern, initial_carry, p, q, x_bin, y_bin, args>>

\* qasm_path.open("w") ... write(dumps(qc)); the script ends
AdderSave ==
    /\ prog = "adder" /\ pc = "save"
    /\ save_qasm_file("adder", n_qubits)
    /\ Exit(0)
    /\ UNCHANGED <<prog, argv, n, n_qubits, qc, st, st0, i, stderr, a_pattern,
                   b_pattern, initial_carry, p, q, x_bin, y_bin, cr, args>>

(***************************************************************************)
(* python -m circuit_forge.multiplier                                      *)
(***************************************************************************)
min_args == 2  \* program name + number of bits

\* len(sys.argv) < min_args: usage message, sys.exit(1)
MulUsage ==
    /\ prog = "multiplier" /\ pc = "start"
    /\ Len(argv) + 1 < min_args
    /\ stderr' = Append(stderr, "Usage: python -m circuit_forge.multiplier <number_of_bits>")
    /\ Exit(1)
    /\ UNCHANGED <<prog, argv, n, n_qubits, qc, st, st0, i, files, a_pattern,
                   b_pattern, initial_carry, p, q, x_bin, y_bin, cr, args>>

\* not validate_bit_count(n): message, sys.exit(1)
MulReject ==
    /\ prog = "multiplier" /\ pc = "start"
    /\ Len(argv) + 1 >= min_args
    /\ ~validate_bit_count(argv[1])
    /\ n' = argv[1]
    /\ stderr' = Append(stderr, "Number of bits must be a positive integer.")
    /\ Exit(1)
    /\ UNCHANGED <<prog, argv, n_qubits, qc, st, st0, i, files, a_pattern,
                   b_pattern, initial_carry, p, q, x_bin, y_bin, cr, args>>

\* n_qubits = 5 * n; qc = QuantumCircuit(qr, cr)
MulCreate ==
    /\ prog = "multiplier" /\ pc = "start"
    /\ Len(argv) + 1 >= min_args
    /\ validate_bit_count(argv[1])
    /\ n' = argv[1]
    /\ n_qubits' = 5 * argv[1]
    /\ st' = ZeroState(5 * argv[1])
    /\ pc' = "select"
    /\ UNCHANGED <<prog, argv, qc, st0, i, exit_status, stderr, files, a_pattern,
                   b_pattern, initial_carry, p, q, x_bin, y_bin, cr, args>>

\* maxv = floor(sqrt(2 ** n)); p, q = randint(1, maxv); y_bin, x_bin.
\* A draw of the generator is any value of randint's range.
MulSelect ==
    /\ prog = "multiplier" /\ pc = "select"
    /\ LET maxv == FloorSqrt(Pow2(n))
       IN  \E pp \in 1..maxv, qq \in 1..maxv :
            /\ p' = pp
            /\ q' = qq
            /\ y_bin' = FormatBits(pp, n)
            /\ x_bin' = FormatBits(qq, n)
    /\ pc' = "init_bits"
    /\ UNCHANGED <<prog, argv, n, n_qubits, qc, st, st0, i, exit_status, stderr,
                   files, a_pattern, b_pattern, initial_carry, cr, args>>

\* init_bits(qc, x_bin, *x); init_bits(qc, y_bin, *y)
MulInitBits ==
    /\ prog = "multiplier" /\ pc = "init_bits"
    /\ LET qr == Range(0, n_qubits)
           y == Slice(qr, n * 3, n * 4, 1)
           xs == Slice(qr, n * 4, Len(qr), 1)
       IN  Emit(init_bits(x_bin, xs) \o init_bits(y_bin, y))
    /\ st0' = st'
    /\ i' = 0
    /\ pc' = "loop"
    /\ UNCHANGED <<prog, argv, n, n_qubits, exit_status, stderr, files, a_pattern,
                   b_pattern, initial_carry, p, q, x_bin, y_bin, cr, args>>

\* one iteration of the loop over enumerate(x) in multiplier(qc, qr)
MulLoop ==
    /\ prog = "multiplier" /\ pc = "loop"
    /\ i < n_qubits \div 5
    /\ Emit(MultiplierStep(Range(0, n_qubits), i))
    /\ i' = i + 1
    /\ UNCHANGED <<prog, pc, argv, n, n_qubits, st0, exit_status, stderr, files,
                   a_pattern, b_pattern, initial_carry, p, q, x_bin, y_bin, cr, args>>

\* b = qr[2 : n * 3 : 3]; qc.measure(b, cr)
MulMeasure ==
    /\ prog = "multiplier" /\ pc = "loop"
    /\ i >= n_qubits \div 5
    /\ Emit(MeasureResult(Range(0, n_qubits), n))
    /\ cr' = [j \in 0..(n - 1) |-> st[Slice(Range(0, n_qubits), 2, n * 3, 3)[j + 1]]]
    /\ pc' = "save"
    /\ UNCHANGED <<prog, argv, n, n_qubits, st0, i, exit_status, stderr, files,
                   a_pattern, b_pattern, initial_carry, p, q, x_bin, y_bin, args>>

\* save_qasm_file(qc, "multiplier", n_qubits); main returns
MulSave ==
    /\ prog = "multiplier" /\ pc = "save"
    /\ save_qasm_file("multiplier", n_qubits)
    /\ Exit(0)
    /\ UNCHANGED <<prog, argv, n, n_qubits, qc, st, st0, i, stderr, a_pattern,
                   b_pattern, initial_carry, p, q, x_bin, y_bin, cr, args>>

Next ==
    \/ AdderNoArgument
    \/ AdderReject
    \/ AdderCreate
    \/ AdderInitialize
    \/ AdderLoop
    \/ AdderMeasure
    \/ AdderSave
    \/ MulUsage
    \/ MulReject
    \/ MulCreate
    \/ MulSelect
    \/ MulInitBits
    \/ MulLoop
    \/ MulMeasure
    \/ MulSave

Spec == Init /\ [][Next]_vars

(***************************************************************************)
(* The multiplier circuit on arbitrary n-bit operands: init_bits,          *)
(* multiplier and the measurement of main, started with any x_bin, y_bin.  *)
(***************************************************************************)
InitMulFn ==
    /\ prog = "multiplier"
    /\ pc = "init_bits"
    /\ argv = <<>>
    /\ n \in 1..MaxN
    /\ n_qubits = 5 * n
    /\ qc = <<>>
    /\ st = ZeroState(5 * n)
    /\ st0 = <<>>
    /\ i = 0
    /\ exit_status = -1
    /\ stderr = <<>>
    /\ files = {}
    /\ a_pattern = <<>>
    /\ b_pattern = <<>>
    /\ initial_carry = 0
    /\ p = 0
    /\ q = 0
    /\ x_bin \in BitStrings(n)
    /\ y_bin \in BitStrings(n)
    /\ cr = <<>>
    /\ args = <<>>

NextMulFn ==
    \/ MulInitBits
    \/ MulLoop
    \/ MulMeasure

SpecMulFn == InitMulFn /\ [][NextMulFn]_vars

(***************************************************************************)
(* The adder's top-level loop on an arbitrary classical register: operand  *)
(* A, operand B and the initial carry hold any value, the other carry      *)
(* qubits are 0.                                                           *)
(***************************************************************************)
AdderInputs(k) ==
    {[j \in 0..(create_quantum_circuit(k) - 1) |-> IF j <= 2 * k THEN f[j] ELSE 0] :
        f \in [0..(2 * k) -> Bit]}

InitAddFn ==
    /\ prog = "adder"
    /\ pc = "loop"
    /\ argv = <<>>
    /\ n \in {k \in 1..MaxK : validate_qubit_count(k)}
    /\ n_qubits = create_quantum_circuit(n)
    /\ qc = <<>>
    /\ st \in AdderInputs(n)
    /\ st0 = st
    /\ i = 0
    /\ exit_status = -1
    /\ stderr = <<>>
    /\ files = {}
    /\ a_pattern = <<>>
    /\ b_pattern = <<>>
    /\ initial_carry = 0
    /\ p = 0
    /\ q = 0
    /\ x_bin = <<>>
    /\ y_bin = <<>>
    /\ cr = <<>>
    /\ args = <<>>

NextAddFn == AdderLoop

SpecAddFn == InitAddFn /\ [][NextAddFn]_vars

(***************************************************************************)
(* Lone calls: adder(qc, qubits) of multiplier.py on m triplets, and       *)
(* apply_majority_gate / undo_majority_gate on three qubits of a register. *)
(***************************************************************************)
\* c[0], a[*], b[*] hold any value, c[1..] are 0
TripletInputs(m) ==
    {s \in [0..(3 * m - 1) -> Bit] : \A j \in 1..(m - 1) : s[3 * j] = 0}

Triples(size) ==
    {t \in [1..3 -> 0..(size - 1)] : t[1] # t[2] /\ t[1] # t[3] /\ t[2] # t[3]}

InitUnit ==
    /\ \/ /\ prog = "adder_call"
          /\ \E m \in 1..MaxM :
                /\ args = Range(0, 3 * m)
                /\ st \in TripletInputs(m)
       \/ /\ prog = "majority_call"
          /\ args \in Triples(RegSize)
          /\ st \in [0..(RegSize - 1) -> Bit]
    /\ pc = "call"
    /\ argv = <<>>
    /\ n = 0
    /\ n_qubits = Cardinality(DOMAIN st)
    /\ qc = <<>>
    /\ st0 = st
    /\ i = 0
    /\ exit_status = -1
    /\ stderr = <<>>
    /\ files = {}
    /\ a_pattern = <<>>
    /\ b_pattern = <<>>
    /\ initial_carry = 0
    /\ p = 0
    /\ q = 0
    /\ x_bin = <<>>
    /\ y_bin = <<>>
    /\ cr = <<>>

\* adder(qc, qubits)
CallAdder ==
    /\ prog = "adder_call" /\ pc = "call"
    /\ Emit(adder(args))
    /\ pc' = "returned"
    /\ UNCHANGED <<prog, argv, n, n_qubits, st0, i, exit_status, stderr, files,
                   a_pattern, b_pattern, initial_carry, p, q, x_bin, y_bin, cr, args>>

\* apply_majority_gate(qc, a, b, c)
CallApplyMajority ==
    /\ prog = "majority_call" /\ pc = "call"
    /\ Emit(apply_majority_gate(args[1], args[2], args[3]))
    /\ pc' = "applied"
    /\ UNCHANGED <<prog, argv, n, n_qubits, st0, i, exit_status, stderr, files,
                   a_pattern, b_pattern, initial_carry, p, q, x_bin, y_bin, cr, args>>

\* undo_majority_gate(qc, a, b, c) right after, same operands
CallUndoMajority ==
    /\ prog = "majority_call" /\ pc = "applied"
    /\ Emit(undo_majority_gate(args[1], args[2], args[3]))
    /\ pc' = "returned"
    /\ UNCHANGED <<prog, argv, n, n_qubits, st0, i, exit_status, stderr, files,
                   a_pattern, b_pattern, initial_carry, p, q, x_bin, y_bin, cr, args>>

NextUnit ==
    \/ CallAdder
    \/ CallApplyMajority
    \/ CallUndoMajority

SpecUnit == InitUnit /\ [][NextUnit]_vars

(***************************************************************************)
(* Properties.                                                             *)
(***************************************************************************)
\* the integer a '0'/'1' string writes, most significant character first
RECURSIVE BinValue(_)
BinValue(s) ==
    IF s = <<>> THEN 0
    ELSE 2 * BinValue(SubSeq(s, 1, Len(s) - 1)) + (IF s[Len(s)] = "1" THEN 1 ELSE 0)

\* C1: adder(qc, qubits) on m interleaved triplets (c[i], a[i], b[i]) with
\* c[1..m-1] = 0: afterwards b holds (a + b + c[0]) mod 2^m, bit i weighing
\* 2^i, and every a qubit holds its original value.
AdderCallSums ==
    (prog = "adder_call" /\ pc = "returned") =>
        LET m == Len(args) \div 3
            c0 == args[1]
            a == [j \in 1..m |-> args[3 * j - 1]]
            b == [j \in 1..m |-> args[3 * j]]
        IN  /\ Val(st, b) = (Val(st0, a) + Val(st0, b) + st0[c0]) % Pow2(m)
            /\ \A j \in 1..m : st[a[j]] = st0[a[j]]

\* a call on at least two triplets whose sum overflows m bits and whose
\* carry-in is set
AdderCallWitness ==
    /\ prog = "adder_call" /\ pc = "returned"
    /\ Len(args) >= 6
    /\ st0[0] = 1
    /\ st0[1] + 2 * st0[4] + st0[2] + 2 * st0[5] + 1 >= Pow2(Len(args) \div 3)
    /\ st # st0

XReg == Range(4 * n, 5 * n)
YReg == Range(3 * n, 4 * n)
CReg == [j \in 1..n |-> 3 * (j - 1)]
AReg == [j \in 1..n |-> 3 * (j - 1) + 1]
BReg == [j \in 1..n |-> 3 * (j - 1) + 2]

\* the value of the classical register, classical bit j weighing 2^j
CrValue == Val(cr, Range(0, n))

\* C2: with X and Y the n-bit values init_bits loaded into the x register
\* (4n..5n-1) and the y register (3n..4n-1), the first 3n qubits 0, after
\* the multiplier and the measurement the classical register (bit j from
\* qubit 3j+2) equals (X * Y) mod 2^n.
MultiplierProduct ==
    (prog = "multiplier" /\ pc = "save") =>
        /\ Val(st0, XReg) = BinValue(x_bin)
        /\ Val(st0, YReg) = BinValue(y_bin)
        /\ \A j \in 0..(3 * n - 1) : st0[j] = 0
        /\ \A j \in 0..(n - 1) : cr[j] = st[3 * j + 2]
        /\ CrValue = (Val(st0, XReg) * Val(st0, YReg)) % Pow2(n)

\* a measured product that wrapped around 2^n and is not 0, from operands
\* that are not palindromes
MultiplierProductWitness ==
    /\ prog = "multiplier" /\ pc = "save"
    /\ n >= 3
    /\ BinValue(x_bin) * BinValue(y_bin) >= Pow2(n)
    /\ CrValue # 0
    /\ x_bin # Reverse(x_bin)
    /\ y_bin # Reverse(y_bin)
    /\ x_bin # y_bin

\* the sum over t < cnt of x_t * Y * 2^t
RECURSIVE PartialProduct(_, _)
PartialProduct(cnt, y) ==
    IF cnt = 0 THEN 0
    ELSE PartialProduct(cnt - 1, y) + st0[XReg[cnt]] * y * Pow2(cnt - 1)

\* C9: with the first 3n qubits 0 at the start, after every iteration of the
\* outer loop of multiplier() every accumulator qubit 3j+1 and every carry
\* qubit 3j is 0, the x and y registers hold their original values, and the b
\* qubits 3j+2 hold the sum over the iterations t done of x_t * Y * 2^t,
\* mod 2^n.
MultiplyLoopInvariant ==
    (prog = "multiplier" /\ pc = "loop") =>
        /\ \A j \in 1..n : st[AReg[j]] = 0 /\ st[CReg[j]] = 0
        /\ \A j \in 1..n : st[XReg[j]] = st0[XReg[j]] /\ st[YReg[j]] = st0[YReg[j]]
        /\ Val(st, BReg) = PartialProduct(i, Val(st0, YReg)) % Pow2(n)

\* two iterations done, one to go, both x bits set, a partial sum that
\* wrapped
MultiplyLoopWitness ==
    /\ prog = "multiplier" /\ pc = "loop"
    /\ i = 2 /\ i < n
    /\ st0[XReg[1]] = 1 /\ st0[XReg[2]] = 1
    /\ PartialProduct(i, Val(st0, YReg)) >= Pow2(n)
    /\ Val(st, BReg) # 0

\* the adder's registers: A at 0..k-1, B at k..2k-1
OperandA == Range(0, n)
OperandB == Range(n, 2 * n)

\* C3: with bit i of an operand at its i-th qubit and the carry qubits
\* 2k+1..2k+k/4 initially 0, after the top-level loop has run add_four_bits
\* on every block the B qubits hold (A + B + carry_in) mod 2^k, qubit
\* 2k+k/4 holds (A + B + carry_in) div 2^k, and the A qubits and qubit 2k
\* hold their original values.
AdderLoopSums ==
    (prog = "adder" /\ pc = "loop" /\ i >= n) =>
        LET total == Val(st0, OperandA) + Val(st0, OperandB) + st0[2 * n]
        IN  /\ Val(st, OperandB) = total % Pow2(n)
            /\ st[2 * n + (n \div 4)] = total \div Pow2(n)
            /\ \A j \in 1..n : st[OperandA[j]] = st0[OperandA[j]]
            /\ st[2 * n] = st0[2 * n]

\* two blocks done, a carry out of the first block but none out of the
\* second, initial carry set
AdderLoopWitness ==
    /\ prog = "adder" /\ pc = "loop" /\ i >= n
    /\ n >= 8
    /\ Len(qc) = 25 * (n \div 4)
    /\ st0[2 * n] = 1
    /\ st[2 * n + 1] = 1
    /\ st[2 * n + (n \div 4)] = 0
    /\ Val(st, OperandB) # Val(st0, OperandB)

\* the qubits the x gates of the circuit flip
FlippedQubits == {qc[j].qs[1] : j \in 1..Len(qc)}

\* a pattern padded on the left / on the right with '0' to length k, then
\* cut to its last k characters
PadLeftCut(s, k) ==
    LET padded == IF Len(s) >= k THEN s ELSE [j \in 1..(k - Len(s)) |-> "0"] \o s
    IN  [j \in 1..k |-> padded[Len(padded) - k + j]]
PadRightCut(s, k) ==
    LET padded == IF Len(s) >= k THEN s ELSE s \o [j \in 1..(k - Len(s)) |-> "0"]
    IN  [j \in 1..k |-> padded[Len(padded) - k + j]]

\* { i : P_A[i] = '1' } union { k+i : P_B[i] = '1' } union ( {2k} if carry )
ExpectedFlips(pa, pb, k, c) ==
    {j - 1 : j \in {l \in 1..k : pa[l] = "1"}}
    \cup {k + j - 1 : j \in {l \in 1..k : pb[l] = "1"}}
    \cup (IF c = 1 THEN {2 * k} ELSE {})

\* the circuit holds the gates of initialize_quantum_state and nothing else
JustInitialized == prog = "adder" /\ pc = "loop" /\ i = 0

\* C5 as stated: with P_A, P_B the patterns padded on the LEFT with '0' to
\* length k and cut to their last k characters, initialize_quantum_state
\* flips exactly { i : P_A[i]='1' }, { k+i : P_B[i]='1' } and 2k if
\* initial_carry = 1, each once.
InitializeFlipsLeftPadded ==
    JustInitialized =>
        /\ \A j \in 1..Len(qc) : qc[j].op = "x"
        /\ FlippedQubits = ExpectedFlips(PadLeftCut(a_pattern, n),
                                         PadLeftCut(b_pattern, n), n, initial_carry)
        /\ Cardinality(FlippedQubits) = Len(qc)

\* C5 amended: the same with the patterns padded on the RIGHT with '0' to
\* length k and then cut to their last k characters.
InitializeFlipsRightPadded ==
    JustInitialized =>
        /\ \A j \in 1..Len(qc) : qc[j].op = "x"
        /\ FlippedQubits = ExpectedFlips(PadRightCut(a_pattern, n),
                                         PadRightCut(b_pattern, n), n, initial_carry)
        /\ Cardinality(FlippedQubits) = Len(qc)

\* a pattern shorter than k whose padding side matters, one longer than k
\* that loses a '1' to the cut, and the carry set
InitializeFlipsWitness ==
    /\ JustInitialized
    /\ Len(a_pattern) < n
    /\ PadLeftCut(a_pattern, n) # PadRightCut(a_pattern, n)
    /\ Len(b_pattern) > n
    /\ b_pattern[1] = "1"
    /\ initial_carry = 1
    /\ Len(qc) >= 3

\* the qubit count the builders declare
DeclaredQubits == IF prog = "adder" THEN 2 * n + (n \div 4) + 1 ELSE 5 * n

\* a circuit has been allocated
Allocated ==
    /\ prog \in {"adder", "multiplier"}
    /\ pc \in {"initialize", "select", "init_bits", "loop", "save"} \/ files # {}

\* C6: in every circuit either builder produces, at every step of the
\* construction, every qubit index of every gate and measurement is >= 0 and
\* < the declared total qubit count (2k + k/4 + 1 adder, 5n multiplier).
GateIndicesInRange ==
    /\ Allocated => n_qubits = DeclaredQubits
    /\ \A j \in 1..Len(qc) : \A l \in 1..Len(qc[j].qs) :
            qc[j].qs[l] >= 0 /\ qc[j].qs[l] < n_qubits

\* a finished two-block adder circuit: its last carry-out is the last qubit
GateIndicesWitness ==
    /\ prog = "adder" /\ pc = "save"
    /\ n >= 8
    /\ \E j \in 1..Len(qc) : qc[j].op = "cx" /\ qc[j].qs[2] = n_qubits - 1
    /\ \E j \in 1..Len(qc) : qc[j].op = "measure" /\ qc[j].qs[1] = n_qubits - 1

\* the qubits the top-level loop passes as a_qubits, b_qubits and carries
Blocks == {blk \in 0..(n - 1) : blk % 4 = 0}
LayoutA == UNION {{BlockA(blk)[j] : j \in 1..4} : blk \in Blocks}
LayoutB == UNION {{BlockB(blk, n)[j] : j \in 1..4} : blk \in Blocks}
LayoutCarry == UNION {{BlockCarryIn(blk, n), BlockCarryOut(blk, n)} : blk \in Blocks}

\* C7: create_quantum_circuit returns k*2 + 2 + k/4 - 1 = 2k + k/4 + 1 (10
\* for k = 4, 19 for k = 8), the size of the layout: operand A at 0..k-1,
\* operand B at k..2k-1, the carry chain at 2k..2k+k/4, pairwise disjoint
\* and together 0..totalQubits-1.
AllocatedMatchesLayout ==
    (prog = "adder" /\ Allocated) =>
        /\ n_qubits = 2 * n + (n \div 4) + 1
        /\ n = 4 => n_qubits = 10
        /\ n = 8 => n_qubits = 19
        /\ LayoutA = 0..(n - 1)
        /\ LayoutB = n..(2 * n - 1)
        /\ LayoutCarry = (2 * n)..(2 * n + (n \div 4))
        /\ LayoutA \cap LayoutB = {}
        /\ LayoutA \cap LayoutCarry = {}
        /\ LayoutB \cap LayoutCarry = {}
        /\ LayoutA \cup LayoutB \cup LayoutCarry = 0..(n_qubits - 1)
        /\ Cardinality(DOMAIN st) = n_qubits

\* the 8-bit adder right after allocation
AllocatedWitness ==
    /\ prog = "adder" /\ pc = "initialize"
    /\ n = 8
    /\ n_qubits = 19

\* the argument is missing or is not a valid bit-width for the command
InvalidWidth ==
    \/ prog = "adder" /\ argv # <<>> /\ ~(argv[1] > 0 /\ argv[1] % 4 = 0)
    \/ prog = "multiplier" /\ (argv = <<>> \/ argv[1] <= 0)

\* C8: an invalid bit-width never produces a file; the adder with a
\* bit-width that is not a positive multiple of 4 exits 0 with no circuit
\* built, the multiplier with a bit-width <= 0 or no argument exits 1 with a
\* message on the error stream.  (The run is at its start or has exited, and
\* at the start the exit is the step it takes.)
InvalidWidthOutcome ==
    InvalidWidth =>
        /\ files = {}
        /\ qc = <<>>
        /\ pc \in {"start", "exited"}
        /\ pc = "start" => ENABLED (AdderReject \/ MulUsage \/ MulReject)
        /\ (prog = "adder" /\ pc = "exited") => exit_status = 0
        /\ (prog = "multiplier" /\ pc = "exited") => exit_status = 1 /\ stderr # <<>>

\* the adder turned away a negative multiple of 4
InvalidWidthWitness ==
    /\ prog = "adder" /\ pc = "exited"
    /\ argv # <<>>
    /\ argv[1] < 0 /\ argv[1] % 4 = 0
    /\ exit_status = 0

====
